---- MODULE Spec2Model ----
(***************************************************************************)
(* IronWallet: the screens' handlers as they read and write the remote     *)
(* store (profiles, budget_categories, income_splits, locked_savings,      *)
(* treat_wallet, transactions), with the store's constraints and           *)
(* row-level-security policies.                                            *)
(*                                                                         *)
(* Every `await` of a handler is a yield point: the request before it      *)
(* takes effect in the store in one step, and other sessions and other     *)
(* handlers of the same screen may run between two steps.                  *)
(***************************************************************************)
EXTENDS Integers, Sequences, FiniteSets, TLC

(***************************************************************************)
(* Bounds of the model.                                                    *)
(***************************************************************************)
MaxEdits == 1

MaxPresses == 1

MaxTime == 1

MaxSavings == 2

MaxSpends == 3

MaxSaves == 1

MaxRequests == 4

MaxMounts == 1

MaxFetches == 2

MaxRows == 1

(***************************************************************************)
(* Users and sessions.  Both sessions are signed in as the same user (two  *)
(* devices); the other user only owns rows in the store.                   *)
(***************************************************************************)
Users == {"u1", "u2"}

Sessions == {"s1", "s2"}

user(s) == "u1"

(***************************************************************************)
(* JavaScript numbers and store columns.  A value is a number, NaN or      *)
(* null; val is in the unit of its context (thousandths of a dollar for a  *)
(* parsed decimal text, cents after Math.round(x * 100)).                  *)
(***************************************************************************)
Num(v) == [tag |-> "num", val |-> v]

NaN == [tag |-> "nan", val |-> 0]

NULL == [tag |-> "null", val |-> 0]

\* ToNumber coercion of an operand of - + > <=: null is 0, NaN stays NaN.
ToNumber(x) == IF x.tag = "null" THEN Num(0) ELSE x

JsSub(a, b) ==
  LET x == ToNumber(a)
      y == ToNumber(b)
  IN  IF x.tag = "nan" \/ y.tag = "nan" THEN NaN ELSE Num(x.val - y.val)

JsAdd(a, b) ==
  LET x == ToNumber(a)
      y == ToNumber(b)
  IN  IF x.tag = "nan" \/ y.tag = "nan" THEN NaN ELSE Num(x.val + y.val)

\* a > b: false as soon as an operand is NaN.
JsGt(a, b) ==
  LET x == ToNumber(a)
      y == ToNumber(b)
  IN  x.tag = "num" /\ y.tag = "num" /\ x.val > y.val

\* a <= b: false as soon as an operand is NaN.
JsLe(a, b) ==
  LET x == ToNumber(a)
      y == ToNumber(b)
  IN  x.tag = "num" /\ y.tag = "num" /\ x.val <= y.val

\* The request body is JSON: JSON.stringify writes NaN as null.
JsonNumber(x) == IF x.tag = "num" THEN x ELSE NULL

(***************************************************************************)
(* Texts of the input fields.  A text is empty, a decimal numeral (milli   *)
(* is its value in thousandths), or any other text ("abc").                *)
(***************************************************************************)
EmptyText == [kind |-> "empty", milli |-> 0]

Garbage == [kind |-> "garbage", milli |-> 0]

Dec(m) == [kind |-> "decimal", milli |-> m]

\* !text
IsEmpty(t) == t.kind = "empty"

parseFloat(t) == IF t.kind = "decimal" THEN Num(t.milli) ELSE NaN

\* parseInt drops the fraction (towards zero).
parseInt(t) ==
  IF t.kind = "decimal"
  THEN Num(IF t.milli >= 0 THEN t.milli \div 1000 ELSE -((-t.milli) \div 1000))
  ELSE NaN

\* Math.round(x * 100) for x in thousandths: floor(x * 100 + 0.5).
MathRoundTimes100(x) == IF x.tag = "num" THEN Num((x.val + 5) \div 10) ELSE NaN

\* Math.round(parseFloat(text) * 100)
amountInCents(t) == MathRoundTimes100(parseFloat(t))

Min(a, b) == IF a < b THEN a ELSE b

Max(a, b) == IF a > b THEN a ELSE b

(***************************************************************************)
(* Onboarding screen.                                                      *)
(***************************************************************************)
CategoryTypes == <<"bills", "goals", "daily", "freedom", "emergency">>

NumCategories == 5

DEFAULT_CATEGORIES ==
  [i \in 1..NumCategories |->
     [type |-> CategoryTypes[i],
      percentage |-> CASE i = 1 -> 30 [] i = 2 -> 20 [] i = 3 -> 25
                       [] i = 4 -> 20 [] OTHER -> 5]]

\* Texts typed into a percentage field: "40", "-7", "abc".
PercentTexts == {Dec(40000), Dec(-7000), Garbage}

\* Texts typed into the Monthly Income field: "abc", "0", "10.01".
IncomeTexts == {Dec(0), Dec(10010)}

VARIABLES
  profiles,           \* store: user -> profiles row
  budget_categories,  \* store: sequence of budget_categories rows
  income_splits,      \* store: sequence of income_splits rows
  storeErrors,        \* constraints the store has rejected a request with
  step,               \* onboarding: session -> 1 | 2
  monthlyIncome,      \* onboarding: session -> text of the income field
  categories,         \* onboarding: session -> the category objects
  loading,            \* onboarding: session -> loading flag
  pc,                 \* onboarding: session -> position in handleComplete
  idx,                \* onboarding: session -> index of the loop's category
  existingCategory,   \* onboarding: session -> result of the loop's select
  screen,             \* session -> the mounted screen
  edits,              \* number of handlePercentageChange calls so far
  incomePresses,      \* number of presses of the dashboard's Add Income
  locked_savings,     \* store: sequence of locked_savings rows
  now,                \* the clock that new Date() and now() read, in days
  savings,            \* locked: session -> the rows fetchSavings last set
  lockPc,             \* locked: session -> position in handleLockSavings
  unlockPc,           \* locked: session -> position in handleUnlock
  lockLoading,        \* locked: session -> loading flag
  treat_wallet,       \* store: user -> treat_wallet row
  transactions,       \* store: sequence of transactions rows
  wallet,             \* treat: session -> the wallet fetchData last set
  treatList,          \* treat: session -> ids of the treats last fetched
  modalVisible,       \* treat: session -> the Give a Treat modal is open
  treatLoading,       \* treat: session -> loading flag
  spendPc,            \* treat: session -> position in handleSpend
  spendWallet,        \* treat: session -> the wallet handleSpend closed over
  spendAmount,        \* treat: session -> amountInCents of handleSpend
  spends,             \* number of handleSpend calls that passed their checks
  settingsProfile,    \* settings: session -> the profile fetchProfile last set
  settingsIncome,     \* settings: session -> text of the Monthly Income field
  impulseBlocker,     \* settings: session -> the Impulse Blocker switch
  showBalance,        \* settings: session -> the Show Total Balance switch
  settingsLoading,    \* settings: session -> loading flag
  savePc,             \* settings: session -> position in handleSave
  moneyWrites,        \* the income texts handleSave wrote, with what it stored
  saves,              \* number of handleSave calls so far
  requestTable,       \* requests: the table the requests go to
  tableRows,          \* requests: the rows of that table
  seen,               \* requests: user -> the rows the user's selects returned
  actor,              \* requests: the user of the latest request
  refused,            \* requests: the commands a policy has refused
  requests,           \* number of requests so far
  dashProfile,        \* dashboard: session -> the profile fetchData last set
  dashCategories,     \* dashboard: session -> the categories fetchData last set
  dashShowBalance,    \* dashboard: session -> the eye toggle
  dashPc,             \* dashboard: session -> position in fetchData
  mounts,             \* number of times the dashboard was opened from outside
  redirects,          \* number of redirects from the dashboard to onboarding
  txFilter,           \* transactions: session -> the selected filter
  txList,             \* transactions: session -> ids of the list on the screen
  txInflight,         \* transactions: session -> filters of the fetches under way
  txFetches           \* number of fetchTransactions calls after the mounts

storeVars == <<profiles, budget_categories, income_splits, storeErrors>>

onboardingVars == <<step, monthlyIncome, categories, loading, pc, idx,
                    existingCategory, screen, edits, incomePresses>>

lockedVars == <<locked_savings, now, savings, lockPc, unlockPc, lockLoading>>

treatVars == <<treat_wallet, transactions, wallet, treatList, modalVisible,
               treatLoading, spendPc, spendWallet, spendAmount, spends>>

settingsVars == <<settingsProfile, settingsIncome, impulseBlocker,
                  showBalance, settingsLoading, savePc, moneyWrites, saves>>

requestVars == <<requestTable, tableRows, seen, actor, refused, requests>>

dashboardVars == <<dashProfile, dashCategories, dashShowBalance, dashPc,
                   mounts, redirects>>

transactionsVars == <<txFilter, txList, txInflight, txFetches>>

vars == <<storeVars, onboardingVars, lockedVars, treatVars, settingsVars,
          requestVars, dashboardVars, transactionsVars>>

\* What the onboarding and dashboard handlers never touch.
offOnboarding == <<lockedVars, treatVars, settingsVars, requestVars,
                   dashboardVars, transactionsVars>>

\* What the locked-savings handlers never touch.
offLocked == <<profiles, budget_categories, income_splits, onboardingVars,
               treatVars, settingsVars, requestVars, dashboardVars,
               transactionsVars>>

\* What the treat-wallet handlers never touch.
offTreat == <<profiles, budget_categories, income_splits, onboardingVars,
              lockedVars, settingsVars, requestVars, dashboardVars,
              transactionsVars>>

\* What the settings handlers never touch.
offSettings == <<budget_categories, income_splits, storeErrors,
                 onboardingVars, lockedVars, treatVars, requestVars,
                 dashboardVars, transactionsVars>>

\* What a request to the store by itself never touches.
offRequests == <<storeVars, onboardingVars, lockedVars, treatVars,
                 settingsVars, dashboardVars, transactionsVars>>

\* What the dashboard's fetchData never touches.
offDashboard == <<storeVars, lockedVars, treatVars, settingsVars, requestVars,
                  pc, idx, existingCategory, edits, incomePresses,
                  transactionsVars>>

\* What the transactions screen never touches.
offTransactions == <<storeVars, onboardingVars, lockedVars, treatVars,
                     settingsVars, requestVars, dashboardVars>>

RECURSIVE SumSeq(_, _)
SumSeq(f, n) == IF n = 0 THEN 0 ELSE f[n] + SumSeq(f, n - 1)

\* categories.reduce((sum, cat) => sum + cat.percentage, 0)
totalPercentage(s) ==
  SumSeq([i \in 1..NumCategories |-> categories[s][i].percentage], NumCategories)

(***************************************************************************)
(* The store's constraints on budget_categories and income_splits.         *)
(***************************************************************************)
BudgetUniqueDropped(rows, row) == TRUE

\* UNIQUE(user_id, category_type)
BudgetUniqueOk(rows, row) ==
  \A i \in 1..Len(rows) :
    ~(rows[i].user_id = row.user_id /\ rows[i].category_type = row.category_type)

\* CHECK (allocation_percentage >= 0 AND allocation_percentage <= 100)
AllocationCheckOk(row) ==
  row.allocation_percentage >= 0 /\ row.allocation_percentage <= 100

\* category_id uuid ... NOT NULL
SplitNotNullOk(row) == row.category_id # 0

\* .select('id').eq('user_id', ...).eq('category_type', ...).maybeSingle():
\* the id of the matching row, 0 (null) when there is none (or several).
SelectCategoryId(rows, u, t) ==
  LET m == {i \in 1..Len(rows) : rows[i].user_id = u /\ rows[i].category_type = t}
  IN  IF Cardinality(m) = 1 THEN CHOOSE i \in m : TRUE ELSE 0

InitStore ==
  /\ profiles = [u \in Users |->
       [monthly_income |-> Num(0), onboarding_completed |-> FALSE,
        impulse_blocker_enabled |-> FALSE, show_total_balance |-> TRUE]]
  /\ budget_categories = << >>
  /\ income_splits = << >>
  /\ storeErrors = {}

InitOnboarding ==
  /\ step = [s \in Sessions |-> 1]
  /\ monthlyIncome = [s \in Sessions |-> EmptyText]
  /\ categories = [s \in Sessions |-> DEFAULT_CATEGORIES]
  /\ loading = [s \in Sessions |-> FALSE]
  /\ pc = [s \in Sessions |-> "idle"]
  /\ idx = [s \in Sessions |-> 0]
  /\ existingCategory = [s \in Sessions |-> 0]
  /\ screen = [s \in Sessions |-> "onboarding"]
  /\ edits = 0
  /\ incomePresses = 0

InitLocked ==
  /\ locked_savings = << >>
  /\ now = 0
  /\ savings = [s \in Sessions |-> {}]
  /\ lockPc = [s \in Sessions |-> "idle"]
  /\ unlockPc = [s \in Sessions |-> "idle"]
  /\ lockLoading = [s \in Sessions |-> FALSE]

\* The wallet row is the one handleSignup inserts.
NoWallet == [loaded |-> FALSE, current_balance |-> NULL,
             monthly_budget |-> NULL, total_spent_this_month |-> NULL]

InitTreat ==
  /\ treat_wallet = [u \in Users |->
       [user_id |-> u, current_balance |-> Num(0), monthly_budget |-> Num(0),
        total_spent_this_month |-> Num(0)]]
  /\ transactions = << >>
  /\ wallet = [s \in Sessions |-> NoWallet]
  /\ treatList = [s \in Sessions |-> << >>]
  /\ modalVisible = [s \in Sessions |-> FALSE]
  /\ treatLoading = [s \in Sessions |-> FALSE]
  /\ spendPc = [s \in Sessions |-> "idle"]
  /\ spendWallet = [s \in Sessions |-> NoWallet]
  /\ spendAmount = [s \in Sessions |-> Num(0)]
  /\ spends = 0

NoProfile == [loaded |-> FALSE, monthly_income |-> NULL]

InitSettings ==
  /\ settingsProfile = [s \in Sessions |-> NoProfile]
  /\ settingsIncome = [s \in Sessions |-> EmptyText]
  /\ impulseBlocker = [s \in Sessions |-> FALSE]
  /\ showBalance = [s \in Sessions |-> TRUE]
  /\ settingsLoading = [s \in Sessions |-> FALSE]
  /\ savePc = [s \in Sessions |-> "idle"]
  /\ moneyWrites = {}
  /\ saves = 0

\* No table chosen yet; the table the requests go to holds one row of
\* each user.
InitRequests ==
  /\ requestTable = "none"
  /\ tableRows = {[id |-> 1, user_id |-> "u1", data |-> 0],
                  [id |-> 2, user_id |-> "u2", data |-> 0]}
  /\ seen = [u \in Users |-> {}]
  /\ actor = "u1"
  /\ refused = {}
  /\ requests = 0

NoDashProfile ==
  [loaded |-> FALSE, onboarding_completed |-> FALSE,
   impulse_blocker_enabled |-> FALSE]

InitDashboard ==
  /\ dashProfile = [s \in Sessions |-> NoDashProfile]
  /\ dashCategories = [s \in Sessions |-> {}]
  /\ dashShowBalance = [s \in Sessions |-> TRUE]
  /\ dashPc = [s \in Sessions |-> "idle"]
  /\ mounts = 0
  /\ redirects = 0

\* The screen is mounted with filter 'all' and its effect has started the
\* first fetchTransactions.
InitTransactions ==
  /\ txFilter = [s \in Sessions |-> "all"]
  /\ txList = [s \in Sessions |-> << >>]
  /\ txInflight = [s \in Sessions |-> {"all"}]
  /\ txFetches = 0

Init ==
  /\ InitStore /\ InitOnboarding /\ InitLocked /\ InitTreat
  /\ InitSettings /\ InitRequests /\ InitDashboard /\ InitTransactions

\* onChangeText={setMonthlyIncome} of step 1
setMonthlyIncome(s, t) ==
  /\ screen[s] = "onboarding" /\ step[s] = 1
  /\ monthlyIncome[s] # t
  /\ monthlyIncome' = [monthlyIncome EXCEPT ![s] = t]
  /\ UNCHANGED <<storeVars, step, categories, loading, pc, idx,
                 existingCategory, screen, edits, incomePresses>>
  /\ UNCHANGED offOnboarding

\* The Next button: disabled={!monthlyIncome || parseFloat(monthlyIncome) <= 0}
NextStep(s) ==
  /\ screen[s] = "onboarding" /\ step[s] = 1
  /\ ~(IsEmpty(monthlyIncome[s]) \/ JsLe(parseFloat(monthlyIncome[s]), Num(0)))
  /\ step' = [step EXCEPT ![s] = 2]
  /\ UNCHANGED <<storeVars, monthlyIncome, categories, loading, pc, idx,
                 existingCategory, screen, edits, incomePresses>>
  /\ UNCHANGED offOnboarding

\* parseInt(value) || 0, clamped to 0..100.  The copy of the array is
\* shallow: the assignment changes the category object itself, which a
\* running handleComplete reads too.
handlePercentageChange(s, index, value) ==
  /\ screen[s] = "onboarding" /\ step[s] = 2
  /\ edits < MaxEdits
  /\ LET p == parseInt(value)
         percentage == IF p.tag = "num" THEN p.val ELSE 0
     IN  categories' = [categories EXCEPT
           ![s][index].percentage = Min(100, Max(0, percentage))]
  /\ edits' = edits + 1
  /\ UNCHANGED <<storeVars, step, monthlyIncome, loading, pc, idx,
                 existingCategory, screen, incomePresses>>
  /\ UNCHANGED offOnboarding

\* ${((parseFloat(monthlyIncome) * category.percentage) / 100).toFixed(2)}:
\* the amount shown for a category, in cents (NaN for an income that does
\* not parse).
categoryAmount(s, i) ==
  LET x == parseFloat(monthlyIncome[s])
  IN  IF x.tag = "num"
      THEN Num((x.val * categories[s][i].percentage + 500) \div 1000)
      ELSE NaN

\* Whether the Complete Setup button takes a press.
CompleteSetupEnabled(s) == ~(totalPercentage(s) # 100) /\ ~loading[s]

\* handleComplete up to its first await: the profiles update.
handleCompleteStart(s) ==
  /\ screen[s] = "onboarding" /\ step[s] = 2 /\ pc[s] = "idle"
  /\ CompleteSetupEnabled(s)
  /\ loading' = [loading EXCEPT ![s] = TRUE]
  /\ profiles' = [profiles EXCEPT ![user(s)] =
       [@ EXCEPT !.monthly_income = JsonNumber(amountInCents(monthlyIncome[s])),
                 !.onboarding_completed = TRUE]]
  /\ pc' = [pc EXCEPT ![s] = "select"]
  /\ idx' = [idx EXCEPT ![s] = 1]
  /\ UNCHANGED <<budget_categories, income_splits, storeErrors, step,
                 monthlyIncome, categories, existingCategory, screen, edits,
                 incomePresses>>
  /\ UNCHANGED offOnboarding

\* The loop's select of the category with this user and type.
handleCompleteSelect(s) ==
  /\ pc[s] = "select"
  /\ existingCategory' = [existingCategory EXCEPT ![s] =
       SelectCategoryId(budget_categories, user(s), categories[s][idx[s]].type)]
  /\ pc' = [pc EXCEPT ![s] = "insert"]
  /\ UNCHANGED <<storeVars, step, monthlyIncome, categories, loading, idx,
                 screen, edits, incomePresses>>
  /\ UNCHANGED offOnboarding

\* if (!existingCategory): the budget_categories insert, then the
\* income_splits insert with category_id: existingCategory?.id (undefined).
\* Then the next category, or the end of the handler.
handleCompleteInsert(s) ==
  /\ pc[s] = "insert"
  /\ LET category == categories[s][idx[s]]
         row == [id |-> Len(budget_categories) + 1,
                 user_id |-> user(s),
                 category_type |-> category.type,
                 allocation_percentage |-> category.percentage,
                 current_balance |-> 0]
         split == [user_id |-> user(s), category_id |-> 0,
                   split_percentage |-> category.percentage]
         rowOk == BudgetUniqueOk(budget_categories, row) /\ AllocationCheckOk(row)
         splitOk == SplitNotNullOk(split)
     IN  IF existingCategory[s] = 0
         THEN /\ budget_categories' =
                   IF rowOk THEN Append(budget_categories, row)
                   ELSE budget_categories
              /\ income_splits' =
                   IF splitOk THEN Append(income_splits, split) ELSE income_splits
              /\ storeErrors' = storeErrors
                   \cup (IF rowOk THEN {} ELSE {"budget_categories"})
                   \cup (IF splitOk THEN {} ELSE {"income_splits"})
         ELSE UNCHANGED <<budget_categories, income_splits, storeErrors>>
  /\ IF idx[s] < NumCategories
     THEN /\ idx' = [idx EXCEPT ![s] = idx[s] + 1]
          /\ pc' = [pc EXCEPT ![s] = "select"]
          /\ UNCHANGED <<loading, screen>>
     ELSE /\ idx' = idx
          /\ pc' = [pc EXCEPT ![s] = "done"]
          /\ loading' = [loading EXCEPT ![s] = FALSE]
          /\ screen' = [screen EXCEPT ![s] = "dashboard"]
  /\ UNCHANGED <<profiles, step, monthlyIncome, categories, existingCategory,
                 edits, incomePresses>>
  /\ UNCHANGED offOnboarding

\* The dashboard's Add Income button: onPress={() => {}}.
AddIncome(s) ==
  /\ screen[s] = "dashboard"
  /\ incomePresses < MaxPresses
  /\ incomePresses' = incomePresses + 1
  /\ UNCHANGED <<storeVars, step, monthlyIncome, categories, loading, pc, idx,
                 existingCategory, screen, edits>>
  /\ UNCHANGED offOnboarding

NextOnboarding ==
  \E s \in Sessions :
    \/ \E t \in IncomeTexts : setMonthlyIncome(s, t)
    \/ NextStep(s)
    \/ \E i \in 1..NumCategories, v \in PercentTexts : handlePercentageChange(s, i, v)
    \/ handleCompleteStart(s)
    \/ handleCompleteSelect(s)
    \/ handleCompleteInsert(s)
    \/ AddIncome(s)

SpecOnboarding == Init /\ [][NextOnboarding]_vars

(***************************************************************************)
(* Row-level security: the policies of the migration.  Every policy is     *)
(* auth.uid() = user_id; profiles, treat_wallet and monthly_reports have   *)
(* no DELETE policy, so no authenticated request deletes their rows.       *)
(***************************************************************************)
Tables == {"profiles", "budget_categories", "transactions", "locked_savings",
           "treat_wallet", "income_splits", "monthly_reports"}

Commands == {"SELECT", "INSERT", "UPDATE", "DELETE"}

HasPolicy(table, cmd) ==
  ~(cmd = "DELETE" /\ table \in {"profiles", "treat_wallet", "monthly_reports"})

PolicyOpen(table, cmd, uid, row) == TRUE

\* USING / WITH CHECK (auth.uid() = user_id)
Policy(table, cmd, uid, row) == HasPolicy(table, cmd) /\ uid = row.user_id

(***************************************************************************)
(* Locked savings screen.                                                  *)
(***************************************************************************)
Day(d) == [kind |-> "date", day |-> d]

BadDate == [kind |-> "baddate", day |-> 0]

NoDate == [kind |-> "empty", day |-> 0]

\* new Date(text): the day of a YYYY-MM-DD text, Invalid Date (NaN) otherwise.
NewDate(t) == IF t.kind = "date" THEN Num(t.day) ELSE NaN

\* Texts typed into the Unlock Date field.
DateTexts == {NoDate, BadDate, Day(1), Day(3)}

\* Texts typed into the Amount field of the Lock Savings modal: "", "abc", "5.004".
LockAmountTexts == {EmptyText, Garbage, Dec(5004)}

\* amount integer NOT NULL
SavingNotNullOk(row) == row.amount.tag = "num"

\* .select('*').eq('user_id', user.id).in('status', ['active', 'unlocked'])
\* (the order of the rows is not modelled)
SelectSavings(uid) ==
  {locked_savings[i] : i \in
     {j \in 1..Len(locked_savings) :
        /\ Policy("locked_savings", "SELECT", uid, locked_savings[j])
        /\ locked_savings[j].user_id = uid
        /\ locked_savings[j].status \in {"active", "unlocked"}}}

isUnlockableAlways(unlockDate) == TRUE

\* new Date(unlockDateString) <= new Date()
isUnlockable(unlockDate) == JsLe(Num(unlockDate), Num(now))

\* savings.filter((s) => s.status === 'active')
activeSavings(s) == {r \in savings[s] : r.status = "active"}

\* Time passes.
Tick ==
  /\ now < MaxTime
  /\ now' = now + 1
  /\ UNCHANGED <<locked_savings, savings, lockPc, unlockPc, lockLoading,
                 storeErrors>>
  /\ UNCHANGED offLocked

\* fetchSavings on mount and on pull-to-refresh.
onRefreshSavings(s) ==
  /\ savings' = [savings EXCEPT ![s] = SelectSavings(user(s))]
  /\ savings'[s] # savings[s]
  /\ UNCHANGED <<locked_savings, now, lockPc, unlockPc, lockLoading, storeErrors>>
  /\ UNCHANGED offLocked

\* handleLockSavings up to the await of the insert.  An unlock date that
\* does not parse makes toISOString throw after setLoading(true).
handleLockSavings(s, amount, reasonGiven, unlockDate) ==
  /\ lockPc[s] = "idle" /\ ~lockLoading[s]
  /\ ~(IsEmpty(amount) \/ ~reasonGiven \/ unlockDate.kind = "empty")
  /\ Len(locked_savings) < MaxSavings
  /\ LET cents == amountInCents(amount)
         unlockDateTime == NewDate(unlockDate)
         row == [id |-> Len(locked_savings) + 1,
                 user_id |-> user(s),
                 amount |-> JsonNumber(cents),
                 unlock_date |-> unlockDateTime.val,
                 locked_at |-> now,
                 status |-> "active"]
         ok == SavingNotNullOk(row)
                 /\ Policy("locked_savings", "INSERT", user(s), row)
     IN  IF unlockDateTime.tag = "nan"
         THEN /\ lockLoading' = [lockLoading EXCEPT ![s] = TRUE]
              /\ lockPc' = [lockPc EXCEPT ![s] = "thrown"]
              /\ UNCHANGED <<locked_savings, storeErrors>>
         ELSE IF ok
         THEN /\ locked_savings' = Append(locked_savings, row)
              /\ lockLoading' = [lockLoading EXCEPT ![s] = TRUE]
              /\ lockPc' = [lockPc EXCEPT ![s] = "fetch"]
              /\ UNCHANGED storeErrors
         ELSE /\ storeErrors' = storeErrors \cup {"locked_savings"}
              /\ UNCHANGED <<locked_savings, lockLoading, lockPc>>
  /\ UNCHANGED <<now, savings, unlockPc>>
  /\ UNCHANGED offLocked

\* The end of handleLockSavings: await fetchSavings(), setLoading(false).
handleLockSavingsFetch(s) ==
  /\ lockPc[s] = "fetch"
  /\ savings' = [savings EXCEPT ![s] = SelectSavings(user(s))]
  /\ lockLoading' = [lockLoading EXCEPT ![s] = FALSE]
  /\ lockPc' = [lockPc EXCEPT ![s] = "idle"]
  /\ UNCHANGED <<locked_savings, now, unlockPc, storeErrors>>
  /\ UNCHANGED offLocked

\* Whether the card of a saving shows the Unlock Now button.
UnlockNowShown(s, saving) ==
  saving \in activeSavings(s) /\ isUnlockable(saving.unlock_date)

StatusToggled(row) == IF row.status = "active" THEN "unlocked" ELSE "active"

\* .update({ status: 'unlocked' })
StatusAfterUnlock(row) == "unlocked"

\* handleUnlock(saving.id) up to the await of the update, which filters
\* on the row id only.
handleUnlock(s, saving) ==
  /\ unlockPc[s] = "idle"
  /\ UnlockNowShown(s, saving)
  /\ locked_savings' =
       [i \in 1..Len(locked_savings) |->
          IF /\ locked_savings[i].id = saving.id
             /\ Policy("locked_savings", "UPDATE", user(s), locked_savings[i])
          THEN [locked_savings[i] EXCEPT
                  !.status = StatusAfterUnlock(locked_savings[i])]
          ELSE locked_savings[i]]
  /\ unlockPc' = [unlockPc EXCEPT ![s] = "fetch"]
  /\ UNCHANGED <<now, savings, lockPc, lockLoading, storeErrors>>
  /\ UNCHANGED offLocked

\* The end of handleUnlock: await fetchSavings().
handleUnlockFetch(s) ==
  /\ unlockPc[s] = "fetch"
  /\ savings' = [savings EXCEPT ![s] = SelectSavings(user(s))]
  /\ unlockPc' = [unlockPc EXCEPT ![s] = "idle"]
  /\ UNCHANGED <<locked_savings, now, lockPc, lockLoading, storeErrors>>
  /\ UNCHANGED offLocked

NextLocked ==
  \/ Tick
  \/ \E s \in Sessions :
       \/ onRefreshSavings(s)
       \/ \E a \in LockAmountTexts, r \in BOOLEAN, d \in DateTexts :
            handleLockSavings(s, a, r, d)
       \/ handleLockSavingsFetch(s)
       \/ \E saving \in savings[s] : handleUnlock(s, saving)
       \/ handleUnlockFetch(s)

SpecLocked == Init /\ [][NextLocked]_vars

(***************************************************************************)
(* Properties of locked savings.                                           *)
(***************************************************************************)
\* C3: a saving is unlocked only at or after its unlock date: every row
\* whose status is 'unlocked' has an unlock_date that is not later than
\* the current time, and a status leaves 'active' only where the Unlock
\* Now button of that saving was shown.
C3_NoEarlyUnlock ==
  \A i \in 1..Len(locked_savings) :
    locked_savings[i].status = "unlocked" => locked_savings[i].unlock_date <= now

\* A saving has been unlocked while another one, not yet due, stays active.
C3_Witness ==
  \E i, j \in 1..Len(locked_savings) :
    /\ locked_savings[i].status = "unlocked"
    /\ locked_savings[j].status = "active"
    /\ locked_savings[j].unlock_date > now

\* C4: every locked_savings row has an unlock_date strictly later than
\* the time it was created at.
C4_UnlockDateInFuture ==
  \A i \in 1..Len(locked_savings) :
    locked_savings[i].unlock_date > locked_savings[i].locked_at

\* C14: the status of a locked saving is always active, unlocked or
\* cancelled; a new row is created active; and a row that is unlocked is
\* not active after any step.
C14_StatusLifecycle ==
  /\ [](\A i \in 1..Len(locked_savings) :
          locked_savings[i].status \in {"active", "unlocked", "cancelled"})
  /\ [][/\ Len(locked_savings') >= Len(locked_savings)
        /\ \A i \in 1..Len(locked_savings) :
             locked_savings[i].status = "unlocked"
               => locked_savings'[i].status # "active"
        /\ \A i \in (Len(locked_savings) + 1)..Len(locked_savings') :
             locked_savings'[i].status = "active"]_vars

\* A session has pressed Unlock Now on a saving and has not fetched yet:
\* the saving is unlocked in the store, that session's list still shows
\* it as active, and the other session's list shows it as unlocked.
C14_Witness ==
  \E i \in 1..Len(locked_savings), s \in Sessions :
    /\ locked_savings[i].status = "unlocked"
    /\ unlockPc[s] = "fetch"
    /\ \E saving \in activeSavings(s) : saving.id = locked_savings[i].id
    /\ \E t \in Sessions \ {s} : unlockPc[t] = "idle" /\
          \E saving \in savings[t] :
            saving.id = locked_savings[i].id /\ saving.status = "unlocked"

(***************************************************************************)
(* Treat wallet screen.                                                    *)
(***************************************************************************)
\* Texts typed into the Amount field of the Give a Treat modal:
\* "", "abc", "-1", "0", "1".
TreatAmountTexts == {EmptyText, Garbage, Dec(-1000), Dec(0), Dec(1000)}

TreatLimit == 20

\* amount integer NOT NULL
TransactionNotNullOk(row) == row.amount.tag = "num"

\* .select('*').eq('user_id', user.id).maybeSingle() on treat_wallet
SelectWallet(uid) ==
  LET row == treat_wallet[uid]
  IN  IF Policy("treat_wallet", "SELECT", uid, row)
      THEN [loaded |-> TRUE, current_balance |-> row.current_balance,
            monthly_budget |-> row.monthly_budget,
            total_spent_this_month |-> row.total_spent_this_month]
      ELSE NoWallet

RECURSIVE TreatIds(_, _)
\* The ids of the user's treat transactions among the first n rows, the
\* latest first.
TreatIds(uid, n) ==
  IF n = 0 THEN << >>
  ELSE IF /\ transactions[n].user_id = uid
          /\ transactions[n].transaction_type = "treat"
          /\ Policy("transactions", "SELECT", uid, transactions[n])
       THEN <<transactions[n].id>> \o TreatIds(uid, n - 1)
       ELSE TreatIds(uid, n - 1)

\* .eq('transaction_type', 'treat').order('transaction_date', desc).limit(20)
SelectTreats(uid) ==
  LET ids == TreatIds(uid, Len(transactions))
  IN  SubSeq(ids, 1, Min(TreatLimit, Len(ids)))

\* wallet && wallet.current_balance <= 0
isBalanceEmpty(s) == wallet[s].loaded /\ JsLe(wallet[s].current_balance, Num(0))

ExceedsBalanceNever(cents, w) == FALSE

\* amountInCents > wallet.current_balance
ExceedsBalance(cents, w) == JsGt(cents, w.current_balance)

SpentAfterSlip(w, cents) == JsSub(w.total_spent_this_month, cents)

\* wallet.total_spent_this_month + amountInCents
SpentAfter(w, cents) == JsAdd(w.total_spent_this_month, cents)

\* fetchData on mount and on pull-to-refresh: the wallet select, then the
\* select of the recent treats (one step: only the list on the screen
\* could tell the two selects apart).
onRefreshTreat(s) ==
  /\ wallet' = [wallet EXCEPT ![s] = SelectWallet(user(s))]
  /\ treatList' = [treatList EXCEPT ![s] = SelectTreats(user(s))]
  /\ <<wallet'[s], treatList'[s]>> # <<wallet[s], treatList[s]>>
  /\ UNCHANGED <<treat_wallet, transactions, modalVisible, treatLoading,
                 spendPc, spendWallet, spendAmount, spends, storeErrors>>
  /\ UNCHANGED offTreat

\* The gift icon: onPress={() => setModalVisible(true)} disabled={isBalanceEmpty}
openTreatModal(s) ==
  /\ ~modalVisible[s]
  /\ ~isBalanceEmpty(s)
  /\ modalVisible' = [modalVisible EXCEPT ![s] = TRUE]
  /\ UNCHANGED <<treat_wallet, transactions, wallet, treatList, treatLoading,
                 spendPc, spendWallet, spendAmount, spends, storeErrors>>
  /\ UNCHANGED offTreat

\* Cancel, the X, onRequestClose.
closeTreatModal(s) ==
  /\ modalVisible[s]
  /\ modalVisible' = [modalVisible EXCEPT ![s] = FALSE]
  /\ UNCHANGED <<treat_wallet, transactions, wallet, treatList, treatLoading,
                 spendPc, spendWallet, spendAmount, spends, storeErrors>>
  /\ UNCHANGED offTreat

\* Whether the Give button takes a press.
GiveEnabled(s, amount, recipientGiven) ==
  /\ modalVisible[s]
  /\ ~treatLoading[s]
  /\ ~(\/ IsEmpty(amount)
       \/ ~recipientGiven
       \/ (wallet[s].loaded /\ ExceedsBalance(amountInCents(amount), wallet[s])))

\* handleSpend up to the await of the transactions insert.
handleSpend(s, amount, recipientGiven) ==
  /\ GiveEnabled(s, amount, recipientGiven)
  /\ spendPc[s] = "idle"
  /\ ~(~wallet[s].loaded \/ IsEmpty(amount) \/ ~recipientGiven)
  /\ ~ExceedsBalance(amountInCents(amount), wallet[s])
  /\ spends < MaxSpends
  /\ LET cents == amountInCents(amount)
         row == [id |-> Len(transactions) + 1,
                 user_id |-> user(s),
                 transaction_type |-> "treat",
                 amount |-> JsonNumber(cents)]
         ok == TransactionNotNullOk(row)
                 /\ Policy("transactions", "INSERT", user(s), row)
     IN  /\ transactions' = IF ok THEN Append(transactions, row) ELSE transactions
         /\ storeErrors' = storeErrors \cup (IF ok THEN {} ELSE {"transactions"})
         /\ spendAmount' = [spendAmount EXCEPT ![s] = cents]
  /\ spendWallet' = [spendWallet EXCEPT ![s] = wallet[s]]
  /\ treatLoading' = [treatLoading EXCEPT ![s] = TRUE]
  /\ spendPc' = [spendPc EXCEPT ![s] = "update"]
  /\ spends' = spends + 1
  /\ UNCHANGED <<treat_wallet, wallet, treatList, modalVisible>>
  /\ UNCHANGED offTreat

\* The treat_wallet update, computed from the wallet the handler closed
\* over; then the modal closes and fetchData starts.
handleSpendUpdate(s) ==
  /\ spendPc[s] = "update"
  /\ LET w == spendWallet[s]
         old == treat_wallet[user(s)]
         new == [old EXCEPT
                   !.current_balance =
                      JsonNumber(JsSub(w.current_balance, spendAmount[s])),
                   !.total_spent_this_month =
                      JsonNumber(SpentAfter(w, spendAmount[s]))]
     IN  treat_wallet' =
           IF /\ Policy("treat_wallet", "UPDATE", user(s), old)
              /\ Policy("treat_wallet", "UPDATE", user(s), new)
           THEN [treat_wallet EXCEPT ![user(s)] = new]
           ELSE treat_wallet
  /\ modalVisible' = [modalVisible EXCEPT ![s] = FALSE]
  /\ spendPc' = [spendPc EXCEPT ![s] = "fetch"]
  /\ UNCHANGED <<transactions, wallet, treatList, treatLoading, spendWallet,
                 spendAmount, spends, storeErrors>>
  /\ UNCHANGED offTreat

\* The end of handleSpend: await fetchData(), setLoading(false).
handleSpendFetch(s) ==
  /\ spendPc[s] = "fetch"
  /\ wallet' = [wallet EXCEPT ![s] = SelectWallet(user(s))]
  /\ treatList' = [treatList EXCEPT ![s] = SelectTreats(user(s))]
  /\ treatLoading' = [treatLoading EXCEPT ![s] = FALSE]
  /\ spendPc' = [spendPc EXCEPT ![s] = "idle"]
  /\ UNCHANGED <<treat_wallet, transactions, modalVisible, spendWallet,
                 spendAmount, spends, storeErrors>>
  /\ UNCHANGED offTreat

NextTreat ==
  \E s \in Sessions :
    \/ onRefreshTreat(s)
    \/ openTreatModal(s)
    \/ closeTreatModal(s)
    \/ \E a \in TreatAmountTexts, r \in BOOLEAN : handleSpend(s, a, r)
    \/ handleSpendUpdate(s)
    \/ handleSpendFetch(s)

SpecTreat == Init /\ [][NextTreat]_vars

(***************************************************************************)
(* Properties of the treat wallet.                                         *)
(***************************************************************************)
PositiveTreats ==
  {i \in 1..Len(transactions) :
     transactions[i].transaction_type = "treat" /\ transactions[i].amount.val > 0}

\* C5: the stored current_balance of a treat wallet is never negative.
C5_BalanceNeverNegative ==
  \A u \in Users :
    treat_wallet[u].current_balance.tag = "num"
      => treat_wallet[u].current_balance.val >= 0

\* Two treats of a positive amount are recorded, both given from the same
\* fetched balance, and the stored balance is 0.
C5_Witness ==
  /\ Cardinality(PositiveTreats) >= 2
  /\ treat_wallet["u1"].current_balance = Num(0)
  /\ \A s \in Sessions : spendPc[s] = "idle"

\* C6: the stored total_spent_this_month of a treat wallet never exceeds
\* its monthly_budget.
C6_SpentWithinBudget ==
  \A u \in Users :
    (treat_wallet[u].total_spent_this_month.tag = "num"
       /\ treat_wallet[u].monthly_budget.tag = "num")
      => treat_wallet[u].total_spent_this_month.val
           <= treat_wallet[u].monthly_budget.val

\* A treat of a positive amount is recorded and the month's spending has
\* reached the budget exactly.
C6_Witness ==
  /\ PositiveTreats # {}
  /\ treat_wallet["u1"].total_spent_this_month = treat_wallet["u1"].monthly_budget
  /\ \A s \in Sessions : spendPc[s] = "idle"

RECURSIVE TreatTotal(_, _)
\* The sum of the amounts of the user's treat transactions among the first
\* n rows.
TreatTotal(uid, n) ==
  IF n = 0 THEN 0
  ELSE TreatTotal(uid, n - 1)
       + (IF /\ transactions[n].user_id = uid
             /\ transactions[n].transaction_type = "treat"
          THEN transactions[n].amount.val ELSE 0)

\* C16: when no handleSpend is under way, total_spent_this_month is the
\* sum of the amounts of the user's recorded treat transactions and
\* current_balance is the balance the wallet was created with less that
\* sum.
C16_NoLostSpend ==
  ((\A s \in Sessions : spendPc[s] = "idle")
     /\ treat_wallet["u1"].current_balance.tag = "num"
     /\ treat_wallet["u1"].total_spent_this_month.tag = "num")
    => LET total == TreatTotal("u1", Len(transactions))
       IN  /\ treat_wallet["u1"].total_spent_this_month.val = total
           /\ treat_wallet["u1"].current_balance.val = 0 - total

\* C17: a handleSpend whose transactions insert failed (the amount it
\* sent is not a number) leaves the treat_wallet row as it was when it
\* goes on from its update.
C17_SpendIsAtomic ==
  [][\A s \in Sessions :
       (/\ spendPc[s] = "update" /\ spendPc'[s] = "fetch"
        /\ ~TransactionNotNullOk([amount |-> JsonNumber(spendAmount[s])]))
         => treat_wallet' = treat_wallet]_vars

\* C11: while the stored current_balance of the user's treat wallet is 0
\* or less, no step of handleSpend records a transaction or changes the
\* treat_wallet row.
C11_NoTreatWhenEmpty ==
  [][JsLe(treat_wallet["u1"].current_balance, Num(0))
       => /\ transactions' = transactions
          /\ treat_wallet' = treat_wallet]_vars

(***************************************************************************)
(* Settings screen.                                                        *)
(***************************************************************************)
\* Texts typed into the Monthly Income field of the settings:
\* "" (cleared), "10.004", "25".
SettingsIncomeTexts == {EmptyText, Dec(10004), Dec(25000)}

\* (data.monthly_income / 100).toFixed(2): cents as a decimal text.
toFixed2OfCents(c) == Dec(ToNumber(c).val * 10)

\* fetchProfile on mount: the profile, the income field and both switches.
fetchProfile(s) ==
  /\ savePc[s] = "idle"
  /\ LET data == profiles[user(s)]
     IN  /\ Policy("profiles", "SELECT", user(s), [user_id |-> user(s)])
         /\ settingsProfile' = [settingsProfile EXCEPT ![s] =
              [loaded |-> TRUE, monthly_income |-> data.monthly_income]]
         /\ settingsIncome' = [settingsIncome EXCEPT ![s] =
              toFixed2OfCents(data.monthly_income)]
         /\ impulseBlocker' = [impulseBlocker EXCEPT ![s] =
              data.impulse_blocker_enabled]
         /\ showBalance' = [showBalance EXCEPT ![s] = data.show_total_balance]
  /\ <<settingsProfile'[s], settingsIncome'[s], impulseBlocker'[s], showBalance'[s]>>
       # <<settingsProfile[s], settingsIncome[s], impulseBlocker[s], showBalance[s]>>
  /\ UNCHANGED <<profiles, settingsLoading, savePc, moneyWrites, saves>>
  /\ UNCHANGED offSettings

\* onChangeText={setMonthlyIncome} of the settings
setSettingsIncome(s, t) ==
  /\ settingsIncome[s] # t
  /\ settingsIncome' = [settingsIncome EXCEPT ![s] = t]
  /\ UNCHANGED <<profiles, settingsProfile, impulseBlocker, showBalance,
                 settingsLoading, savePc, moneyWrites, saves>>
  /\ UNCHANGED offSettings

\* onValueChange={setImpulseBlocker}
setImpulseBlocker(s) ==
  /\ impulseBlocker' = [impulseBlocker EXCEPT ![s] = ~impulseBlocker[s]]
  /\ UNCHANGED <<profiles, settingsProfile, settingsIncome, showBalance,
                 settingsLoading, savePc, moneyWrites, saves>>
  /\ UNCHANGED offSettings

\* onValueChange={setShowBalance}
setShowBalance(s) ==
  /\ showBalance' = [showBalance EXCEPT ![s] = ~showBalance[s]]
  /\ UNCHANGED <<profiles, settingsProfile, settingsIncome, impulseBlocker,
                 settingsLoading, savePc, moneyWrites, saves>>
  /\ UNCHANGED offSettings

\* handleSave up to the await of the profiles update.
handleSave(s) ==
  /\ savePc[s] = "idle" /\ ~settingsLoading[s]
  /\ saves < MaxSaves
  /\ LET incomeInCents == amountInCents(settingsIncome[s])
         old == profiles[user(s)]
         new == [old EXCEPT !.monthly_income = JsonNumber(incomeInCents),
                            !.impulse_blocker_enabled = impulseBlocker[s],
                            !.show_total_balance = showBalance[s]]
     IN  /\ profiles' =
              IF Policy("profiles", "UPDATE", user(s), [user_id |-> user(s)])
              THEN [profiles EXCEPT ![user(s)] = new] ELSE profiles
         /\ moneyWrites' = moneyWrites \cup
              {[text |-> settingsIncome[s], stored |-> JsonNumber(incomeInCents)]}
  /\ settingsLoading' = [settingsLoading EXCEPT ![s] = TRUE]
  /\ savePc' = [savePc EXCEPT ![s] = "fetch"]
  /\ saves' = saves + 1
  /\ UNCHANGED <<settingsProfile, settingsIncome, impulseBlocker, showBalance>>
  /\ UNCHANGED offSettings

\* The end of handleSave: await fetchProfile(), setLoading(false).
handleSaveFetch(s) ==
  /\ savePc[s] = "fetch"
  /\ LET data == profiles[user(s)]
     IN  /\ settingsProfile' = [settingsProfile EXCEPT ![s] =
              [loaded |-> TRUE, monthly_income |-> data.monthly_income]]
         /\ settingsIncome' = [settingsIncome EXCEPT ![s] =
              toFixed2OfCents(data.monthly_income)]
         /\ impulseBlocker' = [impulseBlocker EXCEPT ![s] =
              data.impulse_blocker_enabled]
         /\ showBalance' = [showBalance EXCEPT ![s] = data.show_total_balance]
  /\ settingsLoading' = [settingsLoading EXCEPT ![s] = FALSE]
  /\ savePc' = [savePc EXCEPT ![s] = "idle"]
  /\ UNCHANGED <<profiles, moneyWrites, saves>>
  /\ UNCHANGED offSettings

NextSettings ==
  \E s \in Sessions :
    \/ fetchProfile(s)
    \/ \E t \in SettingsIncomeTexts : setSettingsIncome(s, t)
    \/ setImpulseBlocker(s)
    \/ setShowBalance(s)
    \/ handleSave(s)
    \/ handleSaveFetch(s)

SpecSettings == Init /\ [][NextSettings]_vars

(***************************************************************************)
(* Properties of the amounts written.                                      *)
(***************************************************************************)
\* C10: every amount written to the store is an integer equal to 100
\* times the decimal amount that was entered.
C10_StoredIsHundredTimesEntered ==
  \A w \in moneyWrites :
    /\ w.text.kind = "decimal"
    /\ w.stored.tag = "num"
    /\ w.stored.val * 10 = w.text.milli

(***************************************************************************)
(* Dashboard screen.                                                       *)
(***************************************************************************)
\* A signed-in user opens the app on the tabs: the dashboard mounts with
\* its initial state and its effect starts fetchData.  The onboarding
\* screen is gone, and with it what was typed there.
DashboardMount(s) ==
  /\ screen[s] = "onboarding" /\ pc[s] = "idle"
  /\ mounts < MaxMounts
  /\ screen' = [screen EXCEPT ![s] = "dashboard"]
  /\ step' = [step EXCEPT ![s] = 1]
  /\ monthlyIncome' = [monthlyIncome EXCEPT ![s] = EmptyText]
  /\ categories' = [categories EXCEPT ![s] = DEFAULT_CATEGORIES]
  /\ dashProfile' = [dashProfile EXCEPT ![s] = NoDashProfile]
  /\ dashCategories' = [dashCategories EXCEPT ![s] = {}]
  /\ dashShowBalance' = [dashShowBalance EXCEPT ![s] = TRUE]
  /\ dashPc' = [dashPc EXCEPT ![s] = "profile"]
  /\ mounts' = mounts + 1
  /\ UNCHANGED <<loading, redirects>>
  /\ UNCHANGED offDashboard

\* fetchData starts: the effect after router.replace('/(tabs)'), or a
\* pull-to-refresh.
onRefreshDashboard(s) ==
  /\ screen[s] = "dashboard" /\ dashPc[s] = "idle"
  /\ dashPc' = [dashPc EXCEPT ![s] = "profile"]
  /\ UNCHANGED <<dashProfile, dashCategories, dashShowBalance, mounts, redirects>>
  /\ UNCHANGED <<step, monthlyIncome, categories, loading, screen>>
  /\ UNCHANGED offDashboard

NeedsOnboardingNever(profileData) == FALSE

\* !profileData.onboarding_completed
NeedsOnboarding(profileData) == ~profileData.onboarding_completed

\* The profiles select of fetchData: setProfile, setShowBalance, and the
\* redirect with its return, which takes the dashboard and its state off
\* the screen.
fetchDataProfile(s) ==
  /\ dashPc[s] = "profile"
  /\ LET profileData == profiles[user(s)]
         visible == Policy("profiles", "SELECT", user(s), [user_id |-> user(s)])
     IN  IF visible /\ NeedsOnboarding(profileData)
         THEN /\ screen' = [screen EXCEPT ![s] = "onboarding"]
              /\ dashProfile' = [dashProfile EXCEPT ![s] = NoDashProfile]
              /\ dashCategories' = [dashCategories EXCEPT ![s] = {}]
              /\ dashShowBalance' = [dashShowBalance EXCEPT ![s] = TRUE]
              /\ dashPc' = [dashPc EXCEPT ![s] = "idle"]
              /\ redirects' = redirects + 1
         ELSE /\ IF visible
                 THEN /\ dashProfile' = [dashProfile EXCEPT ![s] =
                           [loaded |-> TRUE,
                            onboarding_completed |->
                              profileData.onboarding_completed,
                            impulse_blocker_enabled |->
                              profileData.impulse_blocker_enabled]]
                      /\ dashShowBalance' = [dashShowBalance EXCEPT ![s] =
                           profileData.show_total_balance]
                 ELSE UNCHANGED <<dashProfile, dashShowBalance>>
              /\ dashPc' = [dashPc EXCEPT ![s] = "categories"]
              /\ UNCHANGED <<screen, dashCategories, redirects>>
  /\ UNCHANGED <<mounts, step, monthlyIncome, categories, loading>>
  /\ UNCHANGED offDashboard

\* .from('budget_categories').select('*').eq('user_id', user.id)
SelectCategories(uid) ==
  {budget_categories[i] : i \in
     {j \in 1..Len(budget_categories) :
        /\ budget_categories[j].user_id = uid
        /\ Policy("budget_categories", "SELECT", uid, budget_categories[j])}}

\* The budget_categories select of fetchData: setCategories.
fetchDataCategories(s) ==
  /\ dashPc[s] = "categories"
  /\ dashCategories' = [dashCategories EXCEPT ![s] = SelectCategories(user(s))]
  /\ dashPc' = [dashPc EXCEPT ![s] = "idle"]
  /\ UNCHANGED <<dashProfile, dashShowBalance, mounts, redirects>>
  /\ UNCHANGED <<step, monthlyIncome, categories, loading, screen>>
  /\ UNCHANGED offDashboard

\* The eye icon: onPress={() => setShowBalance(!showBalance)}
toggleShowBalance(s) ==
  /\ screen[s] = "dashboard"
  /\ dashShowBalance' = [dashShowBalance EXCEPT ![s] = ~dashShowBalance[s]]
  /\ UNCHANGED <<dashProfile, dashCategories, dashPc, mounts, redirects>>
  /\ UNCHANGED <<step, monthlyIncome, categories, loading, screen>>
  /\ UNCHANGED offDashboard

\* The amounts the dashboard renders: Today's Allowance, the Total Balance
\* card under !profile?.impulse_blocker_enabled, and one amount per
\* category card; every one of them is dots unless showBalance.
DisplayedBalances(s) ==
  IF screen[s] # "dashboard" \/ ~dashShowBalance[s] THEN {}
  ELSE {"allowance"}
       \cup (IF ~(dashProfile[s].loaded /\ dashProfile[s].impulse_blocker_enabled)
             THEN {"total"} ELSE {})
       \cup {r.category_type : r \in dashCategories[s]}

\* The dashboard with the onboarding screen it redirects to.
NextDashboard ==
  \E s \in Sessions :
    \/ DashboardMount(s)
    \/ onRefreshDashboard(s)
    \/ fetchDataProfile(s)
    \/ fetchDataCategories(s)
    \/ toggleShowBalance(s)
    \/ \E t \in IncomeTexts : setMonthlyIncome(s, t)
    \/ NextStep(s)
    \/ handleCompleteStart(s)
    \/ handleCompleteSelect(s)
    \/ handleCompleteInsert(s)

SpecDashboard == Init /\ [][NextDashboard]_vars

\* The dashboard reached through onboarding (income "10.01"), with the
\* settings tab next to it, where the impulse blocker is switched.
NextBlocker ==
  \E s \in Sessions :
    \/ setMonthlyIncome(s, Dec(10010))
    \/ NextStep(s)
    \/ handleCompleteStart(s)
    \/ handleCompleteSelect(s)
    \/ handleCompleteInsert(s)
    \/ onRefreshDashboard(s)
    \/ fetchDataProfile(s)
    \/ fetchDataCategories(s)
    \/ toggleShowBalance(s)
    \/ screen[s] = "dashboard" /\ setImpulseBlocker(s)
    \/ screen[s] = "dashboard" /\ handleSave(s)
    \/ handleSaveFetch(s)

SpecBlocker == Init /\ [][NextBlocker]_vars

(***************************************************************************)
(* Properties of the dashboard.                                            *)
(***************************************************************************)
\* C12: while the stored impulse_blocker_enabled of the user is true, the
\* dashboard displays no amount other than the daily allowance (the
\* Today's Allowance card and the card of the daily category).
C12_OnlyDailyAllowanceShown ==
  \A s \in Sessions :
    profiles[user(s)].impulse_blocker_enabled
      => DisplayedBalances(s) \subseteq {"allowance", "daily"}

\* C18: when fetchData loads a profile whose onboarding_completed is
\* false, the dashboard holds no categories, the screen becomes the
\* onboarding screen, and no categories select follows.
C18_RedirectsToOnboarding ==
  [][\A s \in Sessions :
       (/\ dashPc[s] = "profile" /\ dashPc'[s] # "profile"
        /\ ~profiles[user(s)].onboarding_completed)
         => /\ dashCategories[s] = {}
            /\ dashCategories'[s] = {}
            /\ screen'[s] = "onboarding"
            /\ dashPc'[s] = "idle"]_vars

\* A dashboard was opened for a user who had not completed onboarding and
\* has redirected to the onboarding screen.
C18_Witness ==
  /\ redirects > 0
  /\ \E s \in Sessions : screen[s] = "onboarding" /\ dashPc[s] = "idle"

(***************************************************************************)
(* Transactions screen.                                                    *)
(***************************************************************************)
Filters == {"all", "income", "expense"}

TransactionsLimit == 50

RECURSIVE TransactionIds(_, _, _)
\* The ids of the user's transactions that pass the filter among the
\* first n rows, the latest first.
TransactionIds(uid, f, n) ==
  IF n = 0 THEN << >>
  ELSE IF /\ transactions[n].user_id = uid
          /\ (f # "all" => transactions[n].transaction_type = f)
          /\ Policy("transactions", "SELECT", uid, transactions[n])
       THEN <<transactions[n].id>> \o TransactionIds(uid, f, n - 1)
       ELSE TransactionIds(uid, f, n - 1)

\* The query of fetchTransactions, built from the filter of the render
\* the call belongs to.
SelectTransactions(uid, f) ==
  LET ids == TransactionIds(uid, f, Len(transactions))
  IN  SubSeq(ids, 1, Min(TransactionsLimit, Len(ids)))

\* A filter button: setFilter(f); the effect on [user, filter] starts a
\* fetchTransactions with the new filter when the filter changed.
setFilter(s, f) ==
  /\ txFilter[s] # f
  /\ txFetches < MaxFetches
  /\ txFilter' = [txFilter EXCEPT ![s] = f]
  /\ txInflight' = [txInflight EXCEPT ![s] = @ \cup {f}]
  /\ txFetches' = txFetches + 1
  /\ UNCHANGED txList
  /\ UNCHANGED offTransactions

\* Pull-to-refresh: fetchTransactions with the filter on the screen.
onRefreshTransactions(s) ==
  /\ txFetches < MaxFetches
  /\ txInflight' = [txInflight EXCEPT ![s] = @ \cup {txFilter[s]}]
  /\ txFetches' = txFetches + 1
  /\ UNCHANGED <<txFilter, txList>>
  /\ UNCHANGED offTransactions

\* The response of one of the fetches under way arrives, in any order:
\* setTransactions(data).
fetchTransactionsDone(s, f) ==
  /\ f \in txInflight[s]
  /\ txList' = [txList EXCEPT ![s] = SelectTransactions(user(s), f)]
  /\ txInflight' = [txInflight EXCEPT ![s] = @ \ {f}]
  /\ UNCHANGED <<txFilter, txFetches>>
  /\ UNCHANGED offTransactions

\* The transactions screen, with the treat wallet screen whose Give (here
\* of "0" to a recipient) is the only insert into transactions.
NextTransactions ==
  \E s \in Sessions :
    \/ \E f \in Filters : setFilter(s, f)
    \/ onRefreshTransactions(s)
    \/ \E f \in Filters : fetchTransactionsDone(s, f)
    \/ onRefreshTreat(s)
    \/ openTreatModal(s)
    \/ Len(transactions) < MaxRows /\ handleSpend(s, Dec(0), TRUE)
    \/ handleSpendUpdate(s)
    \/ handleSpendFetch(s)

SpecTransactions == Init /\ [][NextTransactions]_vars

\* The type of the transaction with this id.
TypeOfTransaction(id) ==
  LET i == CHOOSE j \in 1..Len(transactions) : transactions[j].id = id
  IN  transactions[i].transaction_type

\* C15: once no fetchTransactions call is under way, the list on the
\* screen holds only transactions of the selected type (of any type when
\* the filter is 'all').
C15_ListMatchesFilter ==
  \A s \in Sessions :
    (txInflight[s] = {} /\ txFilter[s] # "all")
      => \A k \in 1..Len(txList[s]) :
           TypeOfTransaction(txList[s][k]) = txFilter[s]

(***************************************************************************)
(* Requests of authenticated users to one table of the store, whatever     *)
(* screen or client issues them: the generated client sends the filters    *)
(* and the row the caller gives it (handleUnlock filters on the row id     *)
(* alone), and the policies of the table decide which rows the request     *)
(* reads or writes.  A policy looks at the row and at auth.uid() only, so  *)
(* each table is followed on its own.                                      *)
(***************************************************************************)
RowIds == {1, 2, 3}

\* supabase.from(t): the table the requests of this behaviour go to.
requestFrom(t) ==
  /\ requestTable = "none"
  /\ requestTable' = t
  /\ UNCHANGED <<tableRows, seen, actor, refused, requests>>
  /\ UNCHANGED offRequests

\* select('*') with any filter: the rows the SELECT policy lets through.
requestSelect(uid) ==
  /\ requestTable # "none"
  /\ requests < MaxRequests
  /\ seen' = [seen EXCEPT ![uid] =
       @ \cup {r \in tableRows : Policy(requestTable, "SELECT", uid, r)}]
  /\ actor' = uid
  /\ requests' = requests + 1
  /\ UNCHANGED <<requestTable, tableRows, refused>>
  /\ UNCHANGED offRequests

\* insert({user_id: owner, ...}): refused unless WITH CHECK holds of the row.
requestInsert(uid, owner) ==
  /\ requestTable # "none"
  /\ requests < MaxRequests
  /\ ~(\E r \in tableRows : r.id = 3)
  /\ LET row == [id |-> 3, user_id |-> owner, data |-> 0]
     IN  IF Policy(requestTable, "INSERT", uid, row)
         THEN tableRows' = tableRows \cup {row} /\ UNCHANGED refused
         ELSE refused' = refused \cup {"INSERT"} /\ UNCHANGED tableRows
  /\ actor' = uid
  /\ requests' = requests + 1
  /\ UNCHANGED <<requestTable, seen>>
  /\ UNCHANGED offRequests

\* update({...}).eq('id', id): the rows USING lets through are changed;
\* the statement is refused if a changed row fails WITH CHECK.
requestUpdate(uid, id, owner) ==
  /\ requestTable # "none"
  /\ requests < MaxRequests
  /\ \E r \in tableRows : r.id = id
  /\ LET targets == {r \in tableRows :
                       r.id = id /\ Policy(requestTable, "UPDATE", uid, r)}
         changed == {[r EXCEPT !.data = 1, !.user_id = owner] : r \in targets}
     IN  IF targets # {} /\ \A r \in changed : Policy(requestTable, "UPDATE", uid, r)
         THEN /\ tableRows' = (tableRows \ targets) \cup changed
              /\ UNCHANGED refused
         ELSE /\ refused' = refused \cup {"UPDATE"}
              /\ UNCHANGED tableRows
  /\ actor' = uid
  /\ requests' = requests + 1
  /\ UNCHANGED <<requestTable, seen>>
  /\ UNCHANGED offRequests

\* delete().eq('id', id): the rows USING lets through are deleted.
requestDelete(uid, id) ==
  /\ requestTable # "none"
  /\ requests < MaxRequests
  /\ \E r \in tableRows : r.id = id
  /\ LET targets == {r \in tableRows :
                       r.id = id /\ Policy(requestTable, "DELETE", uid, r)}
     IN  /\ tableRows' = tableRows \ targets
         /\ refused' = IF targets = {} THEN refused \cup {"DELETE"}
                       ELSE refused
  /\ actor' = uid
  /\ requests' = requests + 1
  /\ UNCHANGED <<requestTable, seen>>
  /\ UNCHANGED offRequests

NextRequests ==
  \/ \E t \in Tables : requestFrom(t)
  \/ \E uid \in Users :
       \/ requestSelect(uid)
       \/ \E owner \in Users : requestInsert(uid, owner)
       \/ \E id \in RowIds, owner \in Users : requestUpdate(uid, id, owner)
       \/ \E id \in RowIds : requestDelete(uid, id)

SpecRequests == Init /\ [][NextRequests]_vars

\* The rows that belong to someone else than uid.
RowsOfOthers(tbl, uid) == {r \in tbl : r.user_id # uid}

RowsOf(u, t) ==
  {i \in 1..Len(budget_categories) :
     budget_categories[i].user_id = u /\ budget_categories[i].category_type = t}

AllocationTotal(u) ==
  SumSeq([i \in 1..Len(budget_categories) |->
            IF budget_categories[i].user_id = u
            THEN budget_categories[i].allocation_percentage ELSE 0],
         Len(budget_categories))

\* C1: once a session's handleComplete has finished, the
\* allocation_percentage values of the user's budget_categories rows
\* sum to 100.
C1_AllocationsTotal100 ==
  \A s \in Sessions : pc[s] = "done" => AllocationTotal(user(s)) = 100

\* C1 (the gating half): handleComplete starts only from a state in which
\* the five percentages of the session total 100.
C1_StartsOnlyAt100 ==
  [][\A s \in Sessions :
       (pc[s] = "idle" /\ pc'[s] # "idle") => totalPercentage(s) = 100]_vars

\* C2: no user ever has two budget_categories rows of the same
\* category_type, and once a session's handleComplete has finished the
\* user has exactly one row of each of the five types.
C2_OneRowPerType ==
  /\ \A u \in Users, i \in 1..NumCategories :
       Cardinality(RowsOf(u, CategoryTypes[i])) <= 1
  /\ \A s \in Sessions :
       pc[s] = "done" =>
         \A i \in 1..NumCategories :
           Cardinality(RowsOf(user(s), CategoryTypes[i])) = 1

\* Both sessions ran handleComplete, and the store rejected the insert of
\* the one that lost the race between its select and its insert.
C2_Witness ==
  /\ \A s \in Sessions : pc[s] = "done"
  /\ "budget_categories" \in storeErrors

\* C7: when income is added, each budget category's current_balance
\* grows by its allocation_percentage share of the income, in cents.
C7_IncomeIsSplit ==
  [][(incomePresses' > incomePresses /\ profiles["u1"].monthly_income.tag = "num")
       => /\ Len(budget_categories') = Len(budget_categories)
          /\ \A i \in 1..Len(budget_categories) :
               budget_categories'[i].current_balance =
                 budget_categories[i].current_balance
                 + (profiles["u1"].monthly_income.val
                    * budget_categories[i].allocation_percentage) \div 100]_vars

\* C8: in step 2, when the percentages total 100 and the income is a
\* whole number of cents, the five amounts shown add up to the income.
C8_AmountsAddUp ==
  \A s \in Sessions :
    (/\ screen[s] = "onboarding" /\ step[s] = 2
     /\ totalPercentage(s) = 100
     /\ monthlyIncome[s].kind = "decimal"
     /\ monthlyIncome[s].milli % 10 = 0)
    => SumSeq([i \in 1..NumCategories |-> categoryAmount(s, i).val], NumCategories)
         = monthlyIncome[s].milli \div 10

\* C13: once a handleComplete has finished, every budget_categories row
\* of the user has an income_splits row that references its id and whose
\* split_percentage is its allocation_percentage.
C13_SplitPerCategory ==
  (\E s \in Sessions : pc[s] = "done")
    => \A i \in 1..Len(budget_categories) :
         \E j \in 1..Len(income_splits) :
           /\ income_splits[j].user_id = budget_categories[i].user_id
           /\ income_splits[j].category_id = budget_categories[i].id
           /\ income_splits[j].split_percentage
                = budget_categories[i].allocation_percentage

====
